---------------------------- MODULE Spec2Model ----------------------------
(***************************************************************************)
(* A model of the lexical front end of badc: the source Context (cursor,   *)
(* marks, span table; src/bad/source/context.rs and the older copy in      *)
(* src/bad/source/ast.rs) and the tokenizer that drives it                 *)
(* (src/bad/source/lex.rs, and the older lex of src/bad/source/lib.rs).    *)
(*                                                                         *)
(* The source text is a sequence of bytes.  A byte is written as a string: *)
(* an ASCII byte as its character, the two bytes of the UTF-8 encoding of  *)
(* U+00E9 as "C3" (lead byte) and "A9" (continuation byte).  Offsets are   *)
(* byte offsets counted from 0, as in the code: the byte at offset o of s  *)
(* is s[o + 1].                                                            *)
(***************************************************************************)
EXTENDS Integers, Sequences, FiniteSets, TLC

VARIABLES
    source,     \* Context.source: the text, fixed at construction
    driver,     \* who drives: "lex", "lib_lex", "context", "ast", "token"
    pc,         \* "running", "returned" (lex returned its list), "panicked"
    cursor,     \* SpanState.cursor: a Mark {offset, line, col}
    raw_spans,  \* SpanState.raw_spans: the span table
    marks,      \* the Marks the caller holds (results of mark())
    ret,        \* the last Context call and what it returned
    tokens,     \* TokenList.tokens
    lexpos,     \* the logos lexer's position (end of its last match)
    reported,   \* what lex wrote to stderr before panicking
    categorized \* the calls of Token::categorize: what it was given and gave

vars == <<source, driver, pc, cursor, raw_spans, marks, ret, tokens, lexpos, reported,
          categorized>>

----------------------------------------------------------------------------
(* Bounds of the model.                                                    *)

\* longest source text enumerated byte by byte for the two lex drivers
MaxLen == 3
\* longest source text enumerated for the callers of the Context API
MaxCtxLen == 2
\* most spans a caller of the Context API creates
MaxSpans == 2
\* the longest tail enumerated after a comment opener
MaxTail == 3

----------------------------------------------------------------------------
(* Bytes and codepoints.                                                   *)

Lower == {"a", "b", "c", "d", "e", "f", "g", "h", "i", "j", "k", "l", "m",
          "n", "o", "p", "q", "r", "s", "t", "u", "v", "w", "x", "y", "z"}
Upper == {"A", "Z"}
Digit == {"0", "1", "2", "3", "4", "5", "6", "7", "8", "9"}

\* a UTF-8 continuation byte (10xxxxxx): not the first byte of a codepoint
IsContinuation(b) == b = "A9"

\* the number of bytes of the codepoint whose first byte is at offset o
CharLen(s, o) == IF s[o + 1] = "C3" THEN 2 ELSE 1

\* str::is_char_boundary
IsCharBoundary(s, i) ==
    \/ i = 0
    \/ i = Len(s)
    \/ i > 0 /\ i < Len(s) /\ ~IsContinuation(s[i + 1])

\* a String holds well-formed UTF-8: every lead byte has its continuation
WellFormed(s) ==
    \A i \in 1..Len(s) :
        /\ s[i] = "C3" => (i < Len(s) /\ s[i + 1] = "A9")
        /\ s[i] = "A9" => (i > 1 /\ s[i - 1] = "C3")

SeqsUpTo(A, n) == UNION {[1..k -> A] : k \in 0..n}

\* whether &s[a..b] is a slice (otherwise the index expression panics)
SliceOk(s, a, b) ==
    /\ 0 <= a /\ a <= b /\ b <= Len(s)
    /\ IsCharBoundary(s, a)
    /\ IsCharBoundary(s, b)

----------------------------------------------------------------------------
(* The Context: context.rs, and the older copy in ast.rs.                  *)

\* Mark::default(), the cursor of a new Context
DefaultMark == [offset |-> 0, line |-> 0, col |-> 0]

\* the result of a Context call on SpanState st: ok is FALSE when it panicked
Result(st, ok, id) == [st |-> st, ok |-> ok, span |-> id]

\* Context::mark
mark(st) == st.cursor

\* the identifier Context::span returns for a table that now has n records
SpanIndex(n) == n - 1

\* the same in the ast.rs copy of Context
AstSpanIndex(n) == n

\* NewRawSpan with the two ends of the range exchanged
NewRawSpanSwapped(start, end) ==
    [range |-> <<end, start.offset>>, line |-> start.line, col |-> start.col]

\* the record Context::span pushes
NewRawSpan(start, end) ==
    [range |-> <<start.offset, end>>, line |-> start.line, col |-> start.col]

\* PushSpan that writes over the last record of a table that has one
PushSpanOverwrite(table, raw) ==
    IF table = <<>> THEN <<raw>> ELSE [table EXCEPT ![Len(table)] = raw]

\* Vec::push on the span table
PushSpan(table, raw) == Append(table, raw)

\* Context::span; impl is "ast" for the copy in ast.rs
span(impl, st, start) ==
    LET end == st.cursor.offset
        table == PushSpan(st.raw_spans, NewRawSpan(start, end))
        index == IF impl = "ast" THEN AstSpanIndex(Len(table))
                                 ELSE SpanIndex(Len(table))
    IN  Result([st EXCEPT !.raw_spans = table], TRUE, index)

\* CharStep that counts bytes, not codepoints
CharStepBytes(cur, b) ==
    IF b = "\n" THEN [cur EXCEPT !.line = cur.line + 1, !.col = 0]
    ELSE [cur EXCEPT !.col = cur.col + 1]

\* one turn of the loop of advance_cursor over the chars of a slice: byte b of
\* the slice, cursor cur
CharStep(cur, b) ==
    IF IsContinuation(b) THEN cur
    ELSE IF b = "\n" THEN [cur EXCEPT !.line = cur.line + 1, !.col = 0]
    ELSE [cur EXCEPT !.col = cur.col + 1]

RECURSIVE CharsLoop(_, _, _, _)
\* the loop of advance_cursor: the chars of s[from..to], from cursor cur
CharsLoop(s, from, to, cur) ==
    IF from >= to THEN cur
    ELSE CharsLoop(s, from + 1, to, CharStep(cur, s[from + 1]))

\* BumpOffset that assigns the length where it should add it
BumpOffsetAssign(offset, len) == len

\* what advance_cursor does to the offset
BumpOffset(offset, len) == offset + len

\* advance_cursor that walks unread().chars().take(len) and never checks len
advance_cursor_unchecked(s, st, len) ==
    LET offset == st.cursor.offset
        stop == IF offset + len > Len(s) THEN Len(s) ELSE offset + len
        walked == CharsLoop(s, offset, stop, st.cursor)
    IN  Result([st EXCEPT !.cursor = [walked EXCEPT !.offset = offset + len]],
               TRUE, -1)

\* Context::advance_cursor
advance_cursor(s, st, len) ==
    LET offset == st.cursor.offset
    IN  IF ~SliceOk(s, offset, offset + len)
        THEN Result(st, FALSE, -1)
        ELSE LET walked == CharsLoop(s, offset, offset + len, st.cursor)
             IN  Result([st EXCEPT !.cursor =
                            [walked EXCEPT !.offset = BumpOffset(offset, len)]],
                        TRUE, -1)

\* next_span that takes its mark after advancing (the order of lib.rs 88-90)
next_span_late(s, st, len) ==
    LET moved == advance_cursor(s, st, len)
    IN  IF ~moved.ok THEN moved
        ELSE span("context", moved.st, mark(moved.st))

\* Context::next_span
next_span(s, st, len) ==
    LET start == mark(st)
        moved == advance_cursor(s, st, len)
    IN  IF ~moved.ok THEN moved
        ELSE span("context", moved.st, start)

\* Span::range; ok is FALSE when the index is out of the table's bounds
range(table, id) ==
    IF id + 1 \in 1..Len(table)
    THEN [ok |-> TRUE, val |-> table[id + 1].range]
    ELSE [ok |-> FALSE, val |-> <<0, 0>>]

\* Span::coords
coords(table, id) ==
    IF id + 1 \in 1..Len(table)
    THEN [ok |-> TRUE, val |-> <<table[id + 1].line, table[id + 1].col>>]
    ELSE [ok |-> FALSE, val |-> <<0, 0>>]

\* Span::text
text(s, table, id) ==
    LET r == range(table, id)
    IN  IF r.ok /\ SliceOk(s, r.val[1], r.val[2])
        THEN [ok |-> TRUE, val |-> SubSeq(s, r.val[1] + 1, r.val[2])]
        ELSE [ok |-> FALSE, val |-> <<>>]

\* Context::human_line
human_line(cur) == cur.line + 1

\* human_column that stays zero-indexed
human_column_zero(cur) == cur.col

\* Context::human_column
human_column(cur) == cur.col + 1

----------------------------------------------------------------------------
(* The scanner that #[derive(Logos)] builds from the attributes of         *)
(* TokenName (lex.rs 20-115): at each position the longest match of any    *)
(* rule wins, and among rules that match the same length the one with the  *)
(* highest priority; where no rule matches, the Error variant is produced  *)
(* for one codepoint.                                                      *)

NoMatch == -1

\* the character classes of the regex attributes; c is the first byte of a
\* codepoint
InClass(c, cls) ==
    CASE cls = "IdStart"   -> c \in Lower \cup Upper \cup {"_"}
      [] cls = "IdCont"    -> c \in Lower \cup Upper \cup Digit \cup {"_"}
      [] cls = "Digit"     -> c \in Digit
      [] cls = "StrPlain"  -> c \notin {"'", "\\"}
      [] cls = "Dot"       -> c # "\n"
      [] cls = "NotEol"    -> c \notin {"\r", "\n"}
      [] cls = "Blank"     -> c \in {" ", "\t", "\f"}
      [] cls = "NotStar"   -> c # "*"
      [] cls = "NotStarSlash" -> c \notin {"*", "/"}
      [] cls = "Star"      -> c = "*"

\* whether the codepoint at offset o of s exists and is in class cls
At(s, o, cls) == o < Len(s) /\ InClass(s[o + 1], cls)

\* whether the byte at offset o of s exists and is b
ByteAt(s, o, b) == o < Len(s) /\ s[o + 1] = b

RECURSIVE RunEnd(_, _, _)
\* cls*: the end of the longest run of codepoints of class cls from offset o
RunEnd(s, o, cls) ==
    IF At(s, o, cls) THEN RunEnd(s, o + CharLen(s, o), cls) ELSE o

\* a #[token("...")] attribute: the literal lit at offset p
LiteralEnd(s, p, lit) ==
    IF p + Len(lit) <= Len(s) /\ SubSeq(s, p + 1, p + Len(lit)) = lit
    THEN p + Len(lit) ELSE NoMatch

\* [a-zA-Z_][a-zA-Z0-9_]*
IdentifierEnd(s, p) ==
    IF At(s, p, "IdStart") THEN RunEnd(s, p + 1, "IdCont") ELSE NoMatch

\* [0-9]+
NumberEnd(s, p) ==
    IF At(s, p, "Digit") THEN RunEnd(s, p + 1, "Digit") ELSE NoMatch

RECURSIVE StringTail(_, _)
\* [^'\\]*(?:\\.[^'\\]*)*' from offset o, after the opening quote
StringTail(s, o) ==
    LET q == RunEnd(s, o, "StrPlain")
    IN  IF ByteAt(s, q, "'") THEN q + 1
        ELSE IF ByteAt(s, q, "\\") /\ At(s, q + 1, "Dot")
             THEN StringTail(s, q + 1 + CharLen(s, q + 1))
        ELSE NoMatch

\* '[^'\\]*(?:\\.[^'\\]*)*'
StringLiteralEnd(s, p) ==
    IF ByteAt(s, p, "'") THEN StringTail(s, p + 1) ELSE NoMatch

\* //[^\r\n]*[\r\n]? : a line comment that takes its terminator with it
LineCommentEndThroughEol(s, p) ==
    IF ByteAt(s, p, "/") /\ ByteAt(s, p + 1, "/")
    THEN LET e == RunEnd(s, p + 2, "NotEol")
         IN  IF e < Len(s) THEN e + 1 ELSE e
    ELSE NoMatch

\* //[^\r\n]*
LineCommentEnd(s, p) ==
    IF ByteAt(s, p, "/") /\ ByteAt(s, p + 1, "/")
    THEN RunEnd(s, p + 2, "NotEol") ELSE NoMatch

\* the ends of one turn of the loop ([^*]|\**[^*/]) from offset o; minStars is
\* 0 here and 1 for the loop ([^*]|\*+[^*/]) of the Error rule
UnitEnds(s, o, minStars) ==
    LET stars == RunEnd(s, o, "Star")
    IN  (IF At(s, o, "NotStar") THEN {o + CharLen(s, o)} ELSE {})
        \cup
        (IF stars - o >= minStars /\ At(s, stars, "NotStarSlash")
         THEN {stars + CharLen(s, stars)} ELSE {})

RECURSIVE LoopEnds(_, _, _)
\* the offsets the loop can stop at when it starts at offset o
LoopEnds(s, o, minStars) ==
    {o} \cup UNION {LoopEnds(s, e, minStars) : e \in UnitEnds(s, o, minStars)}

Max(S) == CHOOSE x \in S : \A y \in S : y <= x

\* /\*(.|\n)*\*/ : a block comment that runs to the last "*/" of the text
BlockCommentEndGreedy(s, p) ==
    IF ~(ByteAt(s, p, "/") /\ ByteAt(s, p + 1, "*")) THEN NoMatch
    ELSE LET ends == {k + 2 : k \in {k \in (p + 2)..(Len(s) - 2) :
                                        ByteAt(s, k, "*") /\ ByteAt(s, k + 1, "/")}}
         IN  IF ends = {} THEN NoMatch ELSE Max(ends)

\* /\*([^*]|\**[^*/])*\*+/
BlockCommentEnd(s, p) ==
    IF ~(ByteAt(s, p, "/") /\ ByteAt(s, p + 1, "*")) THEN NoMatch
    ELSE LET ends == {q + k + 1 :
                        <<q, k>> \in {<<q, k>> \in LoopEnds(s, p + 2, 0) \X (1..Len(s)) :
                            /\ q + k <= RunEnd(s, q, "Star")
                            /\ ByteAt(s, q + k, "/")}}
         IN  IF ends = {} THEN NoMatch ELSE Max(ends)

\* /\*([^*]|\*+[^*/])*\*?   (the regex on the Error variant)
ErrorRegexEnd(s, p) ==
    IF ~(ByteAt(s, p, "/") /\ ByteAt(s, p + 1, "*")) THEN NoMatch
    ELSE LET stops == LoopEnds(s, p + 2, 1)
         IN  Max(stops \cup {q + 1 : q \in {q \in stops : ByteAt(s, q, "*")}})

\* [ \t\f]+
WhitespaceEnd(s, p) ==
    IF At(s, p, "Blank") THEN RunEnd(s, p + 1, "Blank") ELSE NoMatch

\* [\r\n] in place of (\r)?(\n)?: a carriage return and a line feed apart
LineWhitespaceEndSingle(s, p) ==
    IF ByteAt(s, p, "\r") \/ ByteAt(s, p, "\n") THEN p + 1 ELSE NoMatch

\* (\r)?(\n)?  -- the empty match is no token: the scanner needs one byte
LineWhitespaceEnd(s, p) ==
    LET q == IF ByteAt(s, p, "\r") THEN p + 1 ELSE p
        e == IF ByteAt(s, q, "\n") THEN q + 1 ELSE q
    IN  IF e > p THEN e ELSE NoMatch

\* the callback of the LineWhitespace rule, on the matched slice
LineWhitespaceStyle(slice) ==
    CASE slice = <<"\r", "\n">> -> "CarriageReturnLineFeed"
      [] slice = <<"\r">>       -> "CarriageReturn"
      [] slice = <<"\n">>       -> "LineFeed"
      [] OTHER                  -> "None"

\* the keywords: #[token] attributes, lex.rs 29-44
Keywords ==
    { [name |-> "If",     lit |-> <<"i", "f">>],
      [name |-> "Auto",   lit |-> <<"a", "u", "t", "o">>],
      [name |-> "Extrn",  lit |-> <<"e", "x", "t", "r", "n">>],
      [name |-> "Case",   lit |-> <<"c", "a", "s", "e">>],
      [name |-> "While",  lit |-> <<"w", "h", "i", "l", "e">>],
      [name |-> "Switch", lit |-> <<"s", "w", "i", "t", "c", "h">>],
      [name |-> "Goto",   lit |-> <<"g", "o", "t", "o">>],
      [name |-> "Return", lit |-> <<"r", "e", "t", "u", "r", "n">>] }

\* the two-byte punctuators: #[token] attributes, lex.rs 64-93
DoublePunctuators ==
    { [name |-> "PlusPlus",               lit |-> <<"+", "+">>],
      [name |-> "MinusMinus",             lit |-> <<"-", "-">>],
      [name |-> "EqualsEquals",           lit |-> <<"=", "=">>],
      [name |-> "ExclamationEquals",      lit |-> <<"!", "=">>],
      [name |-> "LessThanLessThan",       lit |-> <<"<", "<">>],
      [name |-> "LessThanEquals",         lit |-> <<"<", "=">>],
      [name |-> "GreaterThanGreaterThan", lit |-> <<">", ">">>],
      [name |-> "GreaterThanEquals",      lit |-> <<">", "=">>] }

\* the one-byte punctuators: #[token] attributes, lex.rs 46-99
SinglePunctuators ==
    { [name |-> "LeftParen",    lit |-> <<"(">>],
      [name |-> "RightParen",   lit |-> <<")">>],
      [name |-> "LeftBrace",    lit |-> <<"{">>],
      [name |-> "RightBrace",   lit |-> <<"}">>],
      [name |-> "Semicolon",    lit |-> <<";">>],
      [name |-> "Comma",        lit |-> <<",">>],
      [name |-> "SingleQuote",  lit |-> <<"'">>],
      [name |-> "Quote",        lit |-> <<"\"">>],
      [name |-> "Plus",         lit |-> <<"+">>],
      [name |-> "Minus",        lit |-> <<"-">>],
      [name |-> "Exclamation",  lit |-> <<"!">>],
      [name |-> "Ampersand",    lit |-> <<"&">>],
      [name |-> "VerticalBar",  lit |-> <<"|">>],
      [name |-> "Equals",       lit |-> <<"=">>],
      [name |-> "LessThan",     lit |-> <<"<">>],
      [name |-> "GreaterThan",  lit |-> <<">">>],
      [name |-> "Percent",      lit |-> <<"%">>],
      [name |-> "Asterisks",    lit |-> <<"*">>],
      [name |-> "ForwardSlash", lit |-> <<"/">>] }

\* a match of a rule: the variant, its payload, where it ends, its priority
Match(name, style, end, priority) ==
    [name |-> name, style |-> style, end |-> end, priority |-> priority]

\* the priority of a #[token]: two for each byte of the literal
LiteralPriority(lit) == 2 * Len(lit)

\* the priority of the Identifier rule: one class, then a loop
IdentifierPriority == 1

\* the matches of the #[token] rules at offset p
LiteralMatches(s, p) ==
    {Match(r.name, "", LiteralEnd(s, p, r.lit), LiteralPriority(r.lit)) :
        r \in Keywords \cup DoublePunctuators \cup SinglePunctuators}

\* the matches of the #[regex] rules at offset p
RegexMatches(s, p) ==
    { Match("Identifier", "", IdentifierEnd(s, p), IdentifierPriority),
      Match("Number", "", NumberEnd(s, p), 1),
      Match("StringLiteral", "", StringLiteralEnd(s, p), 4),
      Match("Comment", "Line", LineCommentEnd(s, p), 4),
      Match("Comment", "Block", BlockCommentEnd(s, p), 8),
      Match("Whitespace", "", WhitespaceEnd(s, p), 1),
      Match("LineWhitespace",
            LineWhitespaceStyle(SubSeq(s, p + 1, LineWhitespaceEnd(s, p))),
            LineWhitespaceEnd(s, p), 0),
      Match("Error", "", ErrorRegexEnd(s, p), 4) }

\* the rules that match at least one byte at offset p
Candidates(s, p) ==
    {m \in LiteralMatches(s, p) \cup RegexMatches(s, p) : m.end > p}

\* Beats for a scanner whose rules compete by priority before length
BeatsPriorityFirst(m, d) ==
    \/ m.priority > d.priority
    \/ m.priority = d.priority /\ m.end >= d.end

\* Beats for a scanner that stops at the shortest match
BeatsShortest(m, d) ==
    \/ m.end < d.end
    \/ m.end = d.end /\ m.priority >= d.priority

\* whether match m is taken before match d
Beats(m, d) ==
    \/ m.end > d.end
    \/ m.end = d.end /\ m.priority >= d.priority

\* the Error variant where no rule matches: one codepoint
ErrorMatch(s, p) == Match("Error", "", p + CharLen(s, p), 0)

\* the next (TokenName, range) of the spanned logos lexer, from offset p < len
NextToken(s, p) ==
    LET found == Candidates(s, p)
        best == CHOOSE m \in found : \A d \in found : Beats(m, d)
    IN  IF found = {} THEN ErrorMatch(s, p)
        ELSE IF best.style = "None" THEN Match("Error", "", best.end, 0)
        ELSE best

----------------------------------------------------------------------------
(* The categories of the tokens.                                           *)

\* enum TokenName, with the styles of Comment and LineWhitespace
TokenNameValues ==
    {[name |-> n, style |-> ""] :
        n \in {"Identifier", "Number", "StringLiteral", "Whitespace", "Error"}}
    \cup {[name |-> k.name, style |-> ""] :
            k \in Keywords \cup DoublePunctuators \cup SinglePunctuators}
    \cup {[name |-> "Comment", style |-> y] : y \in {"Line", "Block"}}
    \cup {[name |-> "LineWhitespace", style |-> y] :
            y \in {"CarriageReturn", "LineFeed", "CarriageReturnLineFeed"}}

\* categorize with the two quote punctuators counted as string literals
categorize_quotes(t) ==
    CASE t.name = "Identifier" -> "Identifier"
      [] t.name = "Number" -> "NumericLiteral"
      [] t.name \in {"StringLiteral", "SingleQuote", "Quote"} -> "StringLiteral"
      [] t.name \in {"If", "Auto", "Extrn", "Case", "While", "Switch", "Goto",
                     "Return"} -> "Keyword"
      [] t.name \in {"LeftParen", "RightParen", "LeftBrace", "RightBrace",
                     "Semicolon", "Comma", "Plus", "PlusPlus",
                     "Minus", "MinusMinus", "Exclamation", "Ampersand",
                     "VerticalBar", "Equals", "EqualsEquals", "ExclamationEquals",
                     "LessThan", "LessThanLessThan", "LessThanEquals",
                     "GreaterThan", "GreaterThanGreaterThan", "GreaterThanEquals",
                     "Percent", "Asterisks", "ForwardSlash"} -> "Punctuator"
      [] t.name \in {"Whitespace", "Comment"} -> "Whitespace"
      [] t.name = "LineWhitespace" -> "LineWhitespace"
      [] t.name = "Error" -> "Error"

\* Token::categorize: the match on self.name, arm by arm
categorize(t) ==
    CASE t.name = "Identifier" -> "Identifier"
      [] t.name = "Number" -> "NumericLiteral"
      [] t.name = "StringLiteral" -> "StringLiteral"
      [] t.name \in {"If", "Auto", "Extrn", "Case", "While", "Switch", "Goto",
                     "Return"} -> "Keyword"
      [] t.name \in {"LeftParen", "RightParen", "LeftBrace", "RightBrace",
                     "Semicolon", "Comma", "SingleQuote", "Quote", "Plus", "PlusPlus",
                     "Minus", "MinusMinus", "Exclamation", "Ampersand",
                     "VerticalBar", "Equals", "EqualsEquals", "ExclamationEquals",
                     "LessThan", "LessThanLessThan", "LessThanEquals",
                     "GreaterThan", "GreaterThanGreaterThan", "GreaterThanEquals",
                     "Percent", "Asterisks", "ForwardSlash"} -> "Punctuator"
      [] t.name \in {"Whitespace", "Comment"} -> "Whitespace"
      [] t.name = "LineWhitespace" -> "LineWhitespace"
      [] t.name = "Error" -> "Error"

----------------------------------------------------------------------------
(* The inputs.                                                             *)

\* the bytes the lex drivers' sources are enumerated over
EnumBytes == {"i", "f", "+", "/", "*", "'", "\n", "#", "C3", "A9"}

\* the bytes the Context callers' sources are enumerated over: advance_cursor
\* tells "\n" from the rest, and slicing tells codepoint boundaries
CtxBytes == {"a", "\n", "C3", "A9"}

\* the inputs the specification names
SpecSources ==
    { <<"x", "+", "+", " ", "+", "y">>,
      <<"i", "f", "x">>,
      <<"i", "f", "(", "x", ")">>,
      <<"<", "=">>,
      <<"a", "<", "<", "b">>,
      <<"a", "\n", "b">>,
      <<"a", "\r", "\n", "b">>,
      <<"a", "u", "t", "o", " ", "x", ",", " ", "y", ";", " ", "x", " ", "=",
        " ", "1", " ", "+", " ", "2", ";">>,
      <<"/", "*", " ", "u", "n", "t", "e", "r", "m", "i", "n", "a", "t", "e", "d">> }

\* each keyword alone, and followed by one more byte
KeywordSources ==
    {k.lit : k \in Keywords}
    \cup {k.lit \o <<c>> : k \in Keywords, c \in {"x", "1", "_", "(", " ", "#"}}

\* each two-byte punctuator alone, and with one more byte before or after it
PunctuatorSources ==
    {d.lit : d \in DoublePunctuators}
    \cup {d.lit \o <<c>> : d \in DoublePunctuators,
                           c \in {"+", "-", "=", "!", "<", ">", "a"}}
    \cup {<<c>> \o d.lit : d \in DoublePunctuators, c \in {"a", "#"}}

\* comments and literals that hold newlines and two-byte codepoints
LongSources ==
    { <<"/", "/", "C3", "A9", "\n", "x">>,
      <<"/", "*", "C3", "A9", "*", "/", "#">>,
      <<"/", "*", "\n", "C3", "A9", "*", "*", "/", "x", "#">>,
      <<"'", "C3", "A9", "\n", "'", "x", "#">>,
      <<"'", "\\", "'", "'", "#">>,
      <<"/", "*", "x", "*", "*">>,
      <<"'", "a", "b">> }

\* a comment opener and every tail of slashes, stars, letters and newlines
CommentSources ==
    {open \o tail : open \in {<<"/", "*">>, <<"/", "/">>},
                    tail \in SeqsUpTo({"/", "*", "x", "\n"}, MaxTail)}
    \cup { <<"/", "*", "*", "/", "*", "/">>,
           <<"/", "*", "x", "*", "/", "y", "*", "/">>,
           <<"/", "/", "x", "\r", "\n", "y">>,
           <<"/", "/", "\r">> }

\* carriage returns and line feeds next to each other
NewlineSources ==
    { <<"\r", "\n">>,
      <<"\r", "\n", "\r", "\n", "x">>,
      <<"\r", "\r", "\n", "x">>,
      <<"a", "\r", "\n", "\n", "b">>,
      <<"a", "\n", "\r", "b">>,
      <<"C3", "A9", "\r", "\n", "C3", "A9">>,
      <<"\r", "x">> }

LexSources ==
    SpecSources \cup KeywordSources \cup PunctuatorSources \cup LongSources
    \cup CommentSources \cup NewlineSources
    \cup {s \in SeqsUpTo(EnumBytes, MaxLen) : WellFormed(s)}

CtxSources == {s \in SeqsUpTo(CtxBytes, MaxCtxLen) : WellFormed(s)}

LexDrivers == {"lex", "lib_lex"}
ApiDrivers == {"context", "ast"}
TokenDrivers == {"token"}

----------------------------------------------------------------------------
(* The state machine.                                                      *)

NoCall == [op |-> "none", len |-> 0, mark |-> DefaultMark, ok |-> TRUE, span |-> -1]
NoReport == [line |-> 0, col |-> 0, from |-> 0, to |-> 0]

\* the SpanState of the Context
State == [cursor |-> cursor, raw_spans |-> raw_spans]

\* Context::new (context.rs 136-143, ast.rs 122-129), TokenList::new
Init ==
    /\ driver \in LexDrivers \cup ApiDrivers \cup TokenDrivers
    /\ source \in (IF driver \in LexDrivers THEN LexSources
                   ELSE IF driver \in ApiDrivers THEN CtxSources ELSE {<<>>})
    /\ pc = "running"
    /\ cursor = DefaultMark
    /\ raw_spans = <<>>
    /\ marks = {DefaultMark}
    /\ ret = NoCall
    /\ tokens = <<>>
    /\ lexpos = 0
    /\ reported = NoReport
    /\ categorized = <<>>

\* a caller takes a Mark
Mark ==
    /\ driver \in ApiDrivers /\ pc = "running"
    /\ marks' = marks \cup {mark(State)}
    /\ ret' = [NoCall EXCEPT !.op = "mark", !.mark = mark(State)]
    /\ UNCHANGED <<source, driver, pc, cursor, raw_spans, tokens, lexpos, reported, categorized>>

\* a caller closes a span from a Mark it holds
Span ==
    /\ driver \in ApiDrivers /\ pc = "running"
    /\ Len(raw_spans) < MaxSpans
    /\ \E m \in marks :
        LET r == span(driver, State, m)
        IN  /\ raw_spans' = r.st.raw_spans
            /\ cursor' = r.st.cursor
            /\ ret' = [NoCall EXCEPT !.op = "span", !.mark = m, !.span = r.span]
    /\ UNCHANGED <<source, driver, pc, marks, tokens, lexpos, reported, categorized>>

\* a caller advances the cursor by any length up to one byte more than is unread
AdvanceCursor ==
    /\ driver \in ApiDrivers /\ pc = "running"
    /\ \E n \in 0..(Len(source) - cursor.offset + 1) :
        LET r == advance_cursor(source, State, n)
        IN  /\ cursor' = r.st.cursor
            /\ raw_spans' = r.st.raw_spans
            /\ pc' = IF r.ok THEN "running" ELSE "panicked"
            /\ ret' = [NoCall EXCEPT !.op = "advance_cursor", !.len = n, !.ok = r.ok]
    /\ UNCHANGED <<source, driver, marks, tokens, lexpos, reported, categorized>>

\* a caller of context.rs asks for the next span (ast.rs has no next_span)
NextSpan ==
    /\ driver = "context" /\ pc = "running"
    /\ Len(raw_spans) < MaxSpans
    /\ \E n \in 0..(Len(source) - cursor.offset + 1) :
        LET r == next_span(source, State, n)
        IN  /\ cursor' = r.st.cursor
            /\ raw_spans' = r.st.raw_spans
            /\ pc' = IF r.ok THEN "running" ELSE "panicked"
            /\ ret' = [NoCall EXCEPT !.op = "next_span", !.len = n, !.ok = r.ok,
                                     !.span = r.span]
    /\ UNCHANGED <<source, driver, marks, tokens, lexpos, reported, categorized>>

\* Token { name, span }
Token(m, id) == [name |-> m.name, style |-> m.style, span |-> id]

\* one call of Token::categorize: the TokenName given, the TokenCategory got
Categorized(t) == [name |-> t.name, style |-> t.style, category |-> categorize(t)]

\* a holder of a Token of any TokenName asks for its category
Categorize ==
    /\ driver = "token" /\ pc = "running"
    /\ \E n \in TokenNameValues :
        categorized' = <<Categorized(Token(n, 0))>>
    /\ UNCHANGED <<source, driver, pc, cursor, raw_spans, marks, ret, tokens, lexpos, reported>>

\* a progress that leaves out the last byte of the match
ProgressExclusive(range_start, range_end) == range_end - range_start - 1

\* lex.rs 308, lib.rs 87: the length of the match
Progress(range_start, range_end) == range_end - range_start

\* lex.rs 300-305, lib.rs 84: the message of the panic
Report(cur, m, from) ==
    [line |-> human_line(cur), col |-> human_column(cur), from |-> from, to |-> m.end]

\* lex.rs 316-353: the print pass categorizes each token of the list in order
PrintPass(list) == [i \in 1..Len(list) |-> Categorized(list[i])]

\* lex.rs 298: the iterator is exhausted; lex.rs 316-354: the tokens are
\* printed when config.print_tokens is set, and the list is returned
LexReturn ==
    /\ driver = "lex" /\ pc = "running"
    /\ lexpos >= Len(source)
    /\ pc' = "returned"
    /\ \E print_tokens \in BOOLEAN :
        categorized' = IF print_tokens THEN PrintPass(tokens) ELSE <<>>
    /\ UNCHANGED <<source, driver, cursor, raw_spans, marks, ret, tokens, lexpos, reported>>

\* lex.rs 299-307: the next match is Error
LexError ==
    /\ driver = "lex" /\ pc = "running"
    /\ lexpos < Len(source)
    /\ \E m \in {NextToken(source, lexpos)} :
        /\ m.name = "Error"
        /\ reported' = Report(cursor, m, lexpos)
        /\ lexpos' = m.end
        /\ pc' = "panicked"
    /\ UNCHANGED <<source, driver, cursor, raw_spans, marks, ret, tokens, categorized>>

\* lex.rs 308-314: the next match is a token
LexToken ==
    /\ driver = "lex" /\ pc = "running"
    /\ lexpos < Len(source)
    /\ \E m \in {NextToken(source, lexpos)} :
        /\ m.name # "Error"
        /\ \E r \in {next_span(source, State, Progress(lexpos, m.end))} :
            /\ lexpos' = m.end
            /\ cursor' = r.st.cursor
            /\ raw_spans' = r.st.raw_spans
            /\ pc' = IF r.ok THEN "running" ELSE "panicked"
            /\ tokens' = IF r.ok THEN Append(tokens, Token(m, r.span)) ELSE tokens
    /\ UNCHANGED <<source, driver, marks, ret, reported, categorized>>

\* lib.rs 81, 96: the iterator is exhausted
LibLexReturn ==
    /\ driver = "lib_lex" /\ pc = "running"
    /\ lexpos >= Len(source)
    /\ pc' = "returned"
    /\ UNCHANGED <<source, driver, cursor, raw_spans, marks, ret, tokens, lexpos, reported, categorized>>

\* lib.rs 83-85
LibLexError ==
    /\ driver = "lib_lex" /\ pc = "running"
    /\ lexpos < Len(source)
    /\ \E m \in {NextToken(source, lexpos)} :
        /\ m.name = "Error"
        /\ reported' = Report(cursor, m, lexpos)
        /\ lexpos' = m.end
        /\ pc' = "panicked"
    /\ UNCHANGED <<source, driver, cursor, raw_spans, marks, ret, tokens, categorized>>

\* lib.rs 86-93: advance_cursor, then mark, then span
LibLexToken ==
    /\ driver = "lib_lex" /\ pc = "running"
    /\ lexpos < Len(source)
    /\ \E m \in {NextToken(source, lexpos)} :
        /\ m.name # "Error"
        /\ \E moved \in {advance_cursor(source, State, Progress(lexpos, m.end))} :
            LET start == mark(moved.st)
                r == span("context", moved.st, start)
            IN  /\ lexpos' = m.end
                /\ cursor' = IF moved.ok THEN r.st.cursor ELSE cursor
                /\ raw_spans' = IF moved.ok THEN r.st.raw_spans ELSE raw_spans
                /\ pc' = IF moved.ok THEN "running" ELSE "panicked"
                /\ tokens' = IF moved.ok THEN Append(tokens, Token(m, r.span))
                                         ELSE tokens
    /\ UNCHANGED <<source, driver, marks, ret, reported, categorized>>

Next ==
    \/ Mark
    \/ Span
    \/ AdvanceCursor
    \/ NextSpan
    \/ LexReturn
    \/ LexError
    \/ LexToken
    \/ LibLexReturn
    \/ LibLexError
    \/ LibLexToken
    \/ Categorize

Spec == Init /\ [][Next]_vars

\* lex of lex.rs alone: a call of lex runs its loop to the end, no step of it
\* waits for anything
LexInit == Init /\ driver = "lex"

LexNext ==
    \/ LexReturn
    \/ LexError
    \/ LexToken

LexSpec == LexInit /\ [][LexNext]_vars /\ WF_vars(LexNext)

----------------------------------------------------------------------------
(* What the properties below are stated with.                              *)

\* the number of "\n" in s[0..o]
NewlinesBefore(s, o) == Cardinality({i \in 1..o : s[i] = "\n"})

\* the number of codepoints of s[0..o] after its last "\n"
CodepointsSinceNewline(s, o) ==
    LET nl == {i \in 1..o : s[i] = "\n"}
        from == IF nl = {} THEN 0 ELSE Max(nl)
    IN  Cardinality({i \in (from + 1)..o : s[i] # "A9"})

\* the byte range of token i of the list, read through its Span
TokenRange(i) == range(raw_spans, tokens[i].span)

\* the text of token i of the list, read through its Span
TokenText(i) == text(source, raw_spans, tokens[i].span)

\* the TokenNames of the list, in order
Names == [i \in 1..Len(tokens) |-> tokens[i].name]

RECURSIVE ConcatTexts(_)
\* the texts of the first n tokens, concatenated
ConcatTexts(n) == IF n = 0 THEN <<>> ELSE ConcatTexts(n - 1) \o TokenText(n).val

\* the first n tokens cover s[0..upto] with no gap and no overlap
Tiles(n, upto) ==
    /\ \A i \in 1..n : TokenRange(i).ok /\ TokenText(i).ok
    /\ n = 0 => upto = 0
    /\ n > 0 => TokenRange(1).val[1] = 0 /\ TokenRange(n).val[2] = upto
    /\ \A i \in 1..(n - 1) : TokenRange(i).val[2] = TokenRange(i + 1).val[1]
    /\ ConcatTexts(n) = SubSeq(source, 1, upto)

KeywordNames == {k.name : k \in Keywords}

----------------------------------------------------------------------------
(* C1.  Coverage: when lex (lex.rs) returns, the spans of the returned     *)
(* tokens tile the source: the first range starts at 0, each range ends    *)
(* where the next starts, the last ends at len(source), and the texts of   *)
(* the tokens, concatenated in order, are the source.                      *)
C1_Coverage ==
    (driver = "lex" /\ pc = "returned") => Tiles(Len(tokens), Len(source))

\* lex has returned three tokens or more, one of them longer than a byte
C1_Witness ==
    /\ driver = "lex" /\ pc = "returned"
    /\ Len(tokens) >= 3
    /\ \E i \in 1..Len(tokens) : TokenRange(i).val[2] - TokenRange(i).val[1] >= 2

(* C2.  Context::span(mark) returns the index of the record it has just    *)
(* appended: right after s = span(m), the id of s is less than the length  *)
(* of the table, range(s) = (m.offset, cursor.offset), coords(s) =         *)
(* (m.line, m.col), and the k-th span of a fresh Context has id k.         *)
C2_SpanIdIsIndex ==
    (ret.op = "span") =>
        /\ ret.span < Len(raw_spans)
        /\ ret.span = Len(raw_spans) - 1
        /\ range(raw_spans, ret.span) =
               [ok |-> TRUE, val |-> <<ret.mark.offset, cursor.offset>>]
        /\ coords(raw_spans, ret.span) =
               [ok |-> TRUE, val |-> <<ret.mark.line, ret.mark.col>>]

(* C3.  Cursor position: in every state, cursor.line is the number of "\n" *)
(* in source[0..cursor.offset] and cursor.col the number of codepoints     *)
(* (not bytes) of source[0..cursor.offset] after its last "\n".            *)
C3_CursorPosition ==
    /\ cursor.line = NewlinesBefore(source, cursor.offset)
    /\ cursor.col = CodepointsSinceNewline(source, cursor.offset)

\* the cursor is past a newline and, after it, past a two-byte codepoint
C3_Witness ==
    /\ cursor.line >= 1
    /\ cursor.col >= 1
    /\ \E i \in 1..cursor.offset :
        /\ source[i] = "C3"
        /\ \A j \in i..cursor.offset : source[j] # "\n"

(* C4.  Keyword versus identifier: a token that starts with a letter or    *)
(* underscore is the longest identifier-shaped match; it is a keyword kind *)
(* exactly when that whole match is the keyword's spelling, so a keyword   *)
(* spelling followed by a letter, digit or underscore is one Identifier:   *)
(* "ifx" is Identifier, "if(x)" is If, LeftParen, Identifier, RightParen.  *)
C4_KeywordOrIdentifier ==
    (driver = "lex") =>
        /\ \A i \in 1..Len(tokens) :
            LET r == TokenRange(i).val
                word == TokenText(i).val
            IN  /\ tokens[i].name \in KeywordNames =>
                    /\ \E k \in Keywords : k.name = tokens[i].name /\ k.lit = word
                    /\ ~At(source, r[2], "IdCont")
                /\ tokens[i].name = "Identifier" =>
                    \A k \in Keywords : k.lit # word
                /\ At(source, r[1], "IdStart") =>
                    /\ tokens[i].name \in KeywordNames \cup {"Identifier"}
                    /\ \A j \in (r[1] + 1)..r[2] : InClass(source[j], "IdCont")
                    /\ ~At(source, r[2], "IdCont")
        /\ (pc = "returned" /\ source = <<"i", "f", "x">>) =>
                Names = <<"Identifier">>
        /\ (pc = "returned" /\ source = <<"i", "f", "(", "x", ")">>) =>
                Names = <<"If", "LeftParen", "Identifier", "RightParen">>

\* lex has returned an Identifier that a keyword's spelling is a strict prefix of
C4_Witness ==
    /\ driver = "lex" /\ pc = "returned"
    /\ \E i \in 1..Len(tokens) : \E k \in Keywords :
        /\ tokens[i].name = "Identifier"
        /\ Len(TokenText(i).val) > Len(k.lit)
        /\ SubSeq(TokenText(i).val, 1, Len(k.lit)) = k.lit

(* C5.  Multi-character punctuators: a token that starts where the text    *)
(* reads ++, --, ==, !=, <=, <<, >= or >> is that two-byte punctuator,     *)
(* never its one-byte prefix; "x++ +y" is Identifier, PlusPlus,            *)
(* Whitespace, Plus, Identifier and "a<<b" is Identifier,                  *)
(* LessThanLessThan, Identifier.                                           *)
C5_DoublePunctuator ==
    (driver = "lex") =>
        /\ \A i \in 1..Len(tokens) : \A d \in DoublePunctuators :
            LET r == TokenRange(i).val
            IN  (r[1] + 2 <= Len(source) /\ SubSeq(source, r[1] + 1, r[1] + 2) = d.lit)
                    => (tokens[i].name = d.name /\ r[2] = r[1] + 2)
        /\ (pc = "returned" /\ source = <<"x", "+", "+", " ", "+", "y">>) =>
                Names = <<"Identifier", "PlusPlus", "Whitespace", "Plus", "Identifier">>
        /\ (pc = "returned" /\ source = <<"a", "<", "<", "b">>) =>
                Names = <<"Identifier", "LessThanLessThan", "Identifier">>

\* lex has returned a two-byte punctuator followed by its one-byte prefix
C5_Witness ==
    /\ driver = "lex" /\ pc = "returned"
    /\ \E i \in 1..(Len(tokens) - 1) : \E d \in DoublePunctuators :
        /\ tokens[i].name = d.name
        /\ TokenText(i + 1).val = <<d.lit[1]>>

\* the spans of the table start at non-decreasing offsets, in creation order
StartsSorted(table) ==
    \A i \in 1..(Len(table) - 1) : table[i].range[1] <= table[i + 1].range[1]

(* C6.  Monotonic cursor: no Context operation (mark, span,                *)
(* advance_cursor, next_span) decreases the cursor offset, and the spans   *)
(* one lex produces start at non-decreasing offsets in creation order.     *)
C6_MonotonicCursor ==
    [][/\ cursor'.offset >= cursor.offset
       /\ driver \in LexDrivers => StartsSorted(raw_spans')]_vars

\* the cursor has moved twice, and lex has made a span at each stop
C6_Witness ==
    /\ driver \in LexDrivers
    /\ Len(raw_spans) >= 3
    /\ raw_spans[1].range[1] < raw_spans[2].range[1]
    /\ raw_spans[2].range[1] < raw_spans[3].range[1]

(* C7.  Span bounds: every record of the span table has                    *)
(* start <= end <= len(source), so text(span) never slices out of bounds   *)
(* and is source[start..end].                                              *)
C7_SpanBounds ==
    \A i \in 1..Len(raw_spans) :
        LET r == raw_spans[i].range
        IN  /\ 0 <= r[1] /\ r[1] <= r[2] /\ r[2] <= Len(source)
            /\ text(source, raw_spans, i - 1) =
                   [ok |-> TRUE, val |-> [j \in 1..(r[2] - r[1]) |-> source[r[1] + j]]]

\* the table holds a span that is not empty and starts after the first byte
C7_Witness ==
    \E i \in 1..Len(raw_spans) :
        /\ 0 < raw_spans[i].range[1]
        /\ raw_spans[i].range[1] < raw_spans[i].range[2]

(* C8.  Span records are append-only and immutable: every step leaves the  *)
(* records the table already holds, and the source, as they are, so        *)
(* range, text and coords of a Span made earlier return what they did; the *)
(* table only grows, at its end.                                           *)
C8_AppendOnly ==
    [][/\ Len(raw_spans') >= Len(raw_spans)
       /\ source' = source
       /\ \A id \in 0..(Len(raw_spans) - 1) :
            /\ range(raw_spans', id) = range(raw_spans, id)
            /\ coords(raw_spans', id) = coords(raw_spans, id)
            /\ text(source', raw_spans', id) = text(source, raw_spans, id)]_vars

\* a second span was appended after the cursor moved past the end of the first
C8_Witness ==
    /\ Len(raw_spans) >= 2
    /\ raw_spans[2].range[2] > raw_spans[1].range[2]

(* C9.  advance_cursor(n) with n greater than the unread length panics and *)
(* leaves offset, line and col as they were; next_span(n) with such an n   *)
(* panics and appends no record to the span table.                         *)
C9_OverlongAdvance ==
    [][(/\ ret'.op \in {"advance_cursor", "next_span"}
        /\ ret'.len > Len(source) - cursor.offset)
       => (/\ ~ret'.ok
           /\ pc' = "panicked"
           /\ cursor' = cursor
           /\ raw_spans' = raw_spans)]_vars

\* next_span was called with too long a length, after the cursor had moved and
\* a span had been made
C9_Witness ==
    /\ ret.op = "next_span"
    /\ ret.len > Len(source) - cursor.offset
    /\ cursor.offset > 0
    /\ Len(raw_spans) >= 1

(* C10.  Fatal error policy: when lex has met its first Error match it has *)
(* panicked: the list holds the tokens before the offending slice and none *)
(* for it, the scanner has not gone past the slice, nothing is returned,   *)
(* and the line and column reported are the zero-indexed line and column   *)
(* of the first byte of the slice, plus one.                               *)
C10_FatalError ==
    (driver \in LexDrivers /\ reported # NoReport) =>
        /\ pc = "panicked"
        /\ \A i \in 1..Len(tokens) : tokens[i].name # "Error"
        /\ Len(raw_spans) = Len(tokens)
        /\ driver = "lex" => Tiles(Len(tokens), reported.from)
        /\ cursor.offset = reported.from
        /\ reported.from < reported.to
        /\ lexpos = reported.to
        /\ reported.line = NewlinesBefore(source, reported.from) + 1
        /\ reported.col = CodepointsSinceNewline(source, reported.from) + 1

\* lex has panicked on the second line, after tokens that hold a two-byte
\* codepoint on that line
C10_Witness ==
    /\ driver = "lex" /\ pc = "panicked"
    /\ reported.line = 2
    /\ reported.col >= 3
    /\ Len(tokens) >= 2
    /\ \E i \in 1..reported.from :
        /\ source[i] = "C3"
        /\ \A j \in i..reported.from : source[j] # "\n"

\* the number of backslashes that end right before offset q, none before from
BackslashesBefore(s, from, q) ==
    Cardinality({k \in from..(q - 1) : \A j \in k..(q - 1) : s[j + 1] = "\\"})

\* a "'" that no odd run of backslashes escapes follows the "'" at offset o
ClosingQuoteAfter(s, o) ==
    \E q \in (o + 1)..(Len(s) - 1) :
        /\ s[q + 1] = "'"
        /\ BackslashesBefore(s, o + 1, q) % 2 = 0

(* C11.  An unterminated single-quoted literal is a lexical error: lex     *)
(* appends no token that starts at a "'" which no closing unescaped "'"    *)
(* follows, and when the unread text starts with such a "'" lex reports    *)
(* the error there.                                                        *)
C11_UnterminatedLiteralIsError ==
    (driver = "lex") =>
        /\ \A i \in 1..Len(tokens) :
            LET o == TokenRange(i).val[1]
            IN  ~(ByteAt(source, o, "'") /\ ~ClosingQuoteAfter(source, o))
        /\ (/\ pc = "running"
            /\ ByteAt(source, lexpos, "'")
            /\ ~ClosingQuoteAfter(source, lexpos))
                => NextToken(source, lexpos).name = "Error"

\* the text at offset o starts with the two bytes a, b
StartsWith(s, o, a, b) == ByteAt(s, o, a) /\ ByteAt(s, o + 1, b)

\* the offsets of the "*/" that follow the comment opener at offset o
ClosersAfter(s, o) == {k \in (o + 2)..(Len(s) - 2) : StartsWith(s, k, "*", "/")}

(* C12.  An unterminated block comment is one Error match: where a "/*"    *)
(* with no "*/" after it starts a match, lex appends no token for it and   *)
(* reports an error whose slice runs from that "/*" to the last byte of    *)
(* the input, also when the tail ends in one or several "*".               *)
C12_UnterminatedCommentIsOneError ==
    (driver = "lex") =>
        /\ \A i \in 1..Len(tokens) :
            LET o == TokenRange(i).val[1]
            IN  ~(StartsWith(source, o, "/", "*") /\ ClosersAfter(source, o) = {})
        /\ (/\ reported # NoReport
            /\ StartsWith(source, reported.from, "/", "*")
            /\ ClosersAfter(source, reported.from) = {})
                => reported.to = Len(source)

(* C13.  Recoverable lexical errors: lex never aborts; once it has met an  *)
(* Error match the list holds an Error token of one byte or more for the   *)
(* offending slice, and lex goes on to return a list for every input.      *)
C13_RecoverableErrors ==
    (driver = "lex") =>
        /\ pc # "panicked"
        /\ reported # NoReport =>
            \E i \in 1..Len(tokens) :
                /\ tokens[i].name = "Error"
                /\ TokenRange(i).val = <<reported.from, reported.to>>
                /\ reported.from < reported.to

\* the zero-indexed (line, col) of token i of the list, read through its Span
TokenCoords(i) == coords(raw_spans, tokens[i].span)

\* token i of the list is a newline token that holds a line feed
IsLineFeedToken(i) ==
    /\ tokens[i].name = "LineWhitespace"
    /\ tokens[i].style \in {"LineFeed", "CarriageReturnLineFeed"}

(* C14.  Newline tracking: a carriage return followed by a line feed is    *)
(* one LineWhitespace token of two bytes, and the token after a newline    *)
(* token "\n" or "\r\n" that lies on line L has coords (L + 1, 0); in      *)
(* "a\nb" the token b has coords (1, 0).                                   *)
C14_NewlineTracking ==
    (driver = "lex") =>
        /\ \A i \in 1..Len(tokens) :
            LET r == TokenRange(i).val
            IN  /\ StartsWith(source, r[1], "\r", "\n") =>
                    /\ tokens[i].name = "LineWhitespace"
                    /\ tokens[i].style = "CarriageReturnLineFeed"
                    /\ r[2] = r[1] + 2
                /\ (tokens[i].name = "LineWhitespace" /\ r[2] = r[1] + 2) =>
                    TokenText(i).val = <<"\r", "\n">>
        /\ \A i \in 1..(Len(tokens) - 1) :
            IsLineFeedToken(i) =>
                TokenCoords(i + 1).val = <<TokenCoords(i).val[1] + 1, 0>>
        /\ (source = <<"a", "\n", "b">> /\ Len(tokens) = 3) =>
            TokenCoords(3).val = <<1, 0>>

\* a "\r\n" token on the second line or later, followed by a token
C14_Witness ==
    /\ driver = "lex"
    /\ \E i \in 1..(Len(tokens) - 1) :
        /\ tokens[i].style = "CarriageReturnLineFeed"
        /\ TokenCoords(i).val[1] >= 1
        /\ TokenCoords(i + 1).val = <<TokenCoords(i).val[1] + 1, 0>>

\* the number of "\n" in s[from..to]
NewlinesBetween(s, from, to) == Cardinality({i \in (from + 1)..to : s[i] = "\n"})

\* this step appends one token to the list
AppendsToken == Len(tokens') = Len(tokens) + 1

(* C15.  Newline tokens are the sole driver of line advancement: during a  *)
(* lex the line number of the Cursor changes only in a step that appends a *)
(* LineWhitespace token; a token of any other kind leaves it unchanged.    *)
C15_OnlyNewlineTokensAdvanceLine ==
    [][(driver \in LexDrivers /\ cursor'.line # cursor.line) =>
          /\ AppendsToken
          /\ tokens'[Len(tokens')].name = "LineWhitespace"]_vars

(* C15, amended.  During a lex the line number of the Cursor changes only  *)
(* in a step that appends a token, and it grows by the number of "\n" in   *)
(* the text of that token: a token that holds a "\n" is a LineWhitespace   *)
(* token "\n" or "\r\n" (which adds one), a block comment or a string      *)
(* literal (which add one per "\n" they hold); every other token, the      *)
(* lone "\r" included, leaves the line unchanged.                          *)
C15_LineFeedsAdvanceLine ==
    [][(driver \in LexDrivers) =>
          /\ cursor'.line # cursor.line => AppendsToken
          /\ AppendsToken =>
              LET t == tokens'[Len(tokens')]
                  n == NewlinesBetween(source, cursor.offset, cursor'.offset)
              IN  /\ cursor'.line = cursor.line + n
                  /\ n > 0 =>
                      \/ t.name = "LineWhitespace" /\ n = 1
                         /\ t.style \in {"LineFeed", "CarriageReturnLineFeed"}
                      \/ t.name = "Comment" /\ t.style = "Block"
                      \/ t.name = "StringLiteral"
                  /\ (t.name = "LineWhitespace" /\ t.style = "CarriageReturn")
                      => n = 0]_vars

\* the last token is a block comment or a string literal, and the cursor is
\* on a later line than the start of that token
C15_Witness ==
    /\ driver = "lex"
    /\ Len(tokens) >= 1
    /\ tokens[Len(tokens)].name \in {"Comment", "StringLiteral"}
    /\ cursor.line > TokenCoords(Len(tokens)).val[1]

\* enum TokenCategory
TokenCategories ==
    {"Identifier", "NumericLiteral", "StringLiteral", "Keyword", "Punctuator",
     "Whitespace", "LineWhitespace", "Error"}

\* the punctuator kinds: the kinds declared with a one- or two-byte symbol
PunctuatorNames == {d.name : d \in DoublePunctuators \cup SinglePunctuators}

(* C16.  categorize is total: whatever TokenName a token has, categorize   *)
(* gives it one TokenCategory; the eight keyword kinds give Keyword, every *)
(* punctuator kind gives Punctuator, Whitespace and both Comment styles    *)
(* give Whitespace, every LineWhitespace style gives LineWhitespace, and   *)
(* Error gives Error.                                                      *)
C16_CategorizeMapping ==
    \A i \in 1..Len(categorized) :
        LET c == categorized[i]
        IN  /\ c.category \in TokenCategories
            /\ c.name \in KeywordNames => c.category = "Keyword"
            /\ c.name \in PunctuatorNames => c.category = "Punctuator"
            /\ c.name \in {"Whitespace", "Comment"} => c.category = "Whitespace"
            /\ c.name = "LineWhitespace" => c.category = "LineWhitespace"
            /\ c.name = "Error" => c.category = "Error"

\* the print pass of lex has categorized a list that holds a keyword, a
\* punctuator, a number and whitespace
C16_Witness ==
    /\ driver = "lex" /\ pc = "returned"
    /\ Len(categorized) = Len(tokens)
    /\ {"Keyword", "Punctuator", "NumericLiteral", "Whitespace"}
           \subseteq {categorized[i].category : i \in 1..Len(categorized)}

(* C17.  The Mark of a token is taken before its lexeme is consumed, in    *)
(* every lex implementation: the span of each token starts at the offset o *)
(* where the cursor stood before the lexeme (0 for the first token, the    *)
(* end of the token before it otherwise), ends n >= 1 bytes later, and has *)
(* the line and column of o; no token has an empty span.                   *)
C17_MarkBeforeAdvance ==
    (driver \in LexDrivers) =>
        \A i \in 1..Len(tokens) :
            LET r == TokenRange(i).val
                o == IF i = 1 THEN 0 ELSE TokenRange(i - 1).val[2]
            IN  /\ r[1] = o
                /\ r[2] > r[1]
                /\ TokenCoords(i).val =
                       <<NewlinesBefore(source, o), CodepointsSinceNewline(source, o)>>

Min(S) == CHOOSE x \in S : \A y \in S : x <= y

\* token i of the list is a comment of the given style
IsComment(i, style) == tokens[i].name = "Comment" /\ tokens[i].style = style

(* C18.  Comment tokens: a "/*" that a "*/" follows is scanned as one      *)
(* Comment(Block) token that ends with the first "*/" after the opener; a  *)
(* "//" is scanned as one Comment(Line) token that holds no "\r" and no    *)
(* "\n" and ends at the end of the input or right before the first of      *)
(* them.                                                                   *)
C18_CommentTokens ==
    (driver = "lex") =>
        \A i \in 1..Len(tokens) :
            LET r == TokenRange(i).val
                o == r[1]
            IN  /\ IsComment(i, "Block") <=>
                       (StartsWith(source, o, "/", "*") /\ ClosersAfter(source, o) # {})
                /\ IsComment(i, "Block") => r[2] = Min(ClosersAfter(source, o)) + 2
                /\ IsComment(i, "Line") <=> StartsWith(source, o, "/", "/")
                /\ IsComment(i, "Line") =>
                    /\ \A j \in (o + 1)..r[2] : source[j] \notin {"\r", "\n"}
                    /\ r[2] < Len(source) => source[r[2] + 1] \in {"\r", "\n"}

\* lex has returned a list with a block comment that a second "*/" follows
C18_Witness ==
    /\ driver = "lex" /\ pc = "returned"
    /\ \E i \in 1..Len(tokens) :
        /\ IsComment(i, "Block")
        /\ Cardinality(ClosersAfter(source, TokenRange(i).val[1])) >= 2

\* lex is over: it has returned its list or it has panicked
Finished == pc \in {"returned", "panicked"}

(* C19.  Progress and termination: every step that leaves lex running has  *)
(* appended a token whose span is one byte or more and has moved the       *)
(* cursor forward; lex always finishes, and it finishes either by          *)
(* returning with the cursor at len(source) or by aborting on an Error     *)
(* match.                                                                  *)
C19_ProgressAndTermination ==
    /\ [][/\ pc' = "running" =>
              /\ AppendsToken
              /\ LET r == range(raw_spans', tokens'[Len(tokens')].span).val
                 IN  r[2] - r[1] >= 1
              /\ cursor'.offset > cursor.offset
          /\ pc' = "returned" => cursor'.offset = Len(source)
          /\ pc' = "panicked" => reported' # NoReport /\ reported'.to > reported'.from
         ]_vars
    /\ <>Finished

\* lex has returned a list of two tokens or more that holds a newline token,
\* with the cursor at the end of the source
C19_Witness ==
    /\ driver = "lex" /\ pc = "returned"
    /\ Len(tokens) >= 2
    /\ \E i \in 1..Len(tokens) : tokens[i].name = "LineWhitespace"
    /\ cursor.offset = Len(source)


=============================================================================
